---- MODULE Spec2Model ----
(***************************************************************************)
(* Model of the europepstrans model builder (src/europepstrans/model) and  *)
(* of the annuity function epc (src/europepstrans/tools/io.py).            *)
(*                                                                         *)
(* The EnergySystem is the log `es` of the entities (buses and components) *)
(* in the order of their construction; a Bus object is identified by its   *)
(* position in that log.  The bus registry `buses` is the dict of dicts    *)
(* create_buses returns.  Real numbers are exact rationals [k, n, d].      *)
(***************************************************************************)
EXTENDS Integers, Sequences, FiniteSets, TLC

VARIABLES
    defaults,   \* the default argument values of create_buses, shared by its calls
    tables,     \* the parsed input tables of the scenario (read-only)
    buses,      \* the bus registry: [keys |-> insertion order, map |-> key -> carrier -> Bus]
    es,         \* the EnergySystem: the entities in the order they were constructed
    om,         \* the optimisation model: None before OperationalModel(es)
    call,       \* the last call: function, arguments, the exception it raised
    calls,      \* the functions called so far, in order
    pc          \* position of run_3regions_example ("lib": no assembler runs)

vars == <<defaults, tables, buses, es, om, call, calls, pc>>

-----------------------------------------------------------------------------
(* Bounds of the model.                                                    *)

MaxLabels == 3      \* longest labels list given to create_buses by a library caller
MaxRegions == 2     \* longest regions list
MaxCalls == 3       \* calls a library caller makes in one behaviour
MaxPeriods == 2     \* longest time horizon

-----------------------------------------------------------------------------
(* Python values.                                                          *)

None == <<>>
Some(v) == <<v>>
NoError == "ok"

EmptyDict == [k \in {} |-> None]

\* '_'.join([a, b]) and '_'.join([a, b, c])
Join2(a, b) == a \o "_" \o b
Join3(a, b, c) == a \o "_" \o b \o "_" \o c

InList(x, s) == \E i \in 1..Len(s) : s[i] = x

RECURSIVE GCD(_, _)
GCD(a, b) == IF b = 0 THEN a ELSE GCD(b, a % b)
Abs(x) == IF x < 0 THEN -x ELSE x

\* A number: the rational n/d in lowest terms with a positive denominator
\* (k = "num"), or one of the IEEE values nan, inf, -inf that numpy's
\* arithmetic produces (k = "nan"; k = "inf" with n the sign).
Rat(n, d) ==
    LET g == GCD(Abs(n), Abs(d))
        s == IF d < 0 THEN -1 ELSE 1
    IN  [k |-> "num", n |-> s * (n \div g), d |-> s * (d \div g)]

RatInt(i) == [k |-> "num", n |-> i, d |-> 1]
NaN == [k |-> "nan", n |-> 0, d |-> 0]
Inf(sign) == [k |-> "inf", n |-> sign, d |-> 0]

Sign(x) == IF x.n > 0 THEN 1 ELSE IF x.n < 0 THEN -1 ELSE 0
Neg(x) == [x EXCEPT !.n = -x.n]

\* x + y, x - y, x * y and x / y of floating-point numbers without rounding
NumAdd(x, y) ==
    IF x.k = "nan" \/ y.k = "nan" THEN NaN
    ELSE IF x.k = "inf" /\ y.k = "inf" THEN (IF x.n = y.n THEN x ELSE NaN)
    ELSE IF x.k = "inf" THEN x
    ELSE IF y.k = "inf" THEN y
    ELSE Rat(x.n * y.d + y.n * x.d, x.d * y.d)

NumSub(x, y) == NumAdd(x, Neg(y))

NumMul(x, y) ==
    IF x.k = "nan" \/ y.k = "nan" THEN NaN
    ELSE IF x.k = "inf" \/ y.k = "inf"
         THEN (IF Sign(x) * Sign(y) = 0 THEN NaN ELSE Inf(Sign(x) * Sign(y)))
    ELSE Rat(x.n * y.n, x.d * y.d)

\* numpy's division: x / 0 is nan or an infinity, never an exception
NumDiv(x, y) ==
    IF x.k = "nan" \/ y.k = "nan" THEN NaN
    ELSE IF x.k = "inf" /\ y.k = "inf" THEN NaN
    ELSE IF x.k = "inf" THEN Inf(IF Sign(y) < 0 THEN -x.n ELSE x.n)
    ELSE IF y.k = "inf" THEN RatInt(0)
    ELSE IF y.n = 0 THEN (IF x.n = 0 THEN NaN ELSE Inf(Sign(x)))
    ELSE Rat(x.n * y.d, x.d * y.n)

RECURSIVE IntPow(_, _)
IntPow(b, e) == IF e = 0 THEN 1 ELSE b * IntPow(b, e - 1)

\* x ** e for a rational x # 0 and an integer e
RatPow(x, e) ==
    IF e >= 0 THEN Rat(IntPow(x.n, e), IntPow(x.d, e))
    ELSE Rat(IntPow(x.d, -e), IntPow(x.n, -e))

-----------------------------------------------------------------------------
(* oemof.solph objects, as far as the builder sets their attributes.       *)

\* Flow(actual_value=.., variable_costs=.., nominal_value=.., fixed=.., investment=..)
Flow(actual_value, variable_costs, nominal_value, fixed, investment) ==
    [actual_value |-> actual_value, variable_costs |-> variable_costs,
     nominal_value |-> nominal_value, fixed |-> fixed, investment |-> investment]

\* Flow(): nothing fixed, no cost, no capacity bound, no investment
PlainFlow == Flow(None, None, None, FALSE, None)

\* Investment(ep_costs=..)
Investment(ep_costs) == [ep_costs |-> ep_costs]

Entity(kind, label, inputs, outputs, conversion_factors, storage) ==
    [kind |-> kind, label |-> label, inputs |-> inputs, outputs |-> outputs,
     conversion_factors |-> conversion_factors, storage |-> storage]

Bus(label) == Entity("Bus", label, EmptyDict, EmptyDict, EmptyDict, None)
Source(label, outputs) == Entity("Source", label, EmptyDict, outputs, EmptyDict, None)
Sink(label, inputs) == Entity("Sink", label, inputs, EmptyDict, EmptyDict, None)
LinearTransformer(label, inputs, outputs, conversion_factors) ==
    Entity("LinearTransformer", label, inputs, outputs, conversion_factors, None)
Storage(label, inputs, outputs, storage) ==
    Entity("Storage", label, inputs, outputs, EmptyDict, Some(storage))

-----------------------------------------------------------------------------
(* The state a builder works on: the entity log, the registry and the      *)
(* exception that ended the builder, if any.                               *)

NoRegistry == [keys |-> <<>>, map |-> EmptyDict]

BuildState(e, b) == [es |-> e, buses |-> b, err |-> NoError]

Raise(st, exc) == [st EXCEPT !.err = exc]

\* constructing a node registers it with the EnergySystem
AddNode(st, node) == [st EXCEPT !.es = Append(@, node)]

\* d[key] = {} for the registry
SetRegion(reg, key) ==
    [keys |-> IF InList(key, reg.keys) THEN reg.keys ELSE Append(reg.keys, key),
     map |-> [k \in DOMAIN reg.map \cup {key} |->
                IF k = key THEN EmptyDict ELSE reg.map[k]]]

\* buses[region][carrier] = Bus(label=label)
AddBus(st, region, carrier, label) ==
    LET id == Len(st.es) + 1
        old == st.buses.map[region]
    IN  [st EXCEPT !.es = Append(@, Bus(label)),
                   !.buses.map[region] =
                       [c \in DOMAIN old \cup {carrier} |->
                           IF c = carrier THEN id ELSE old[c]]]

HasBus(st, region, carrier) ==
    /\ region \in DOMAIN st.buses.map
    /\ carrier \in DOMAIN st.buses.map[region]

\* for region in regions: for tech in technologies: the pairs in loop order
RECURSIVE Pairs(_, _)
Pairs(regions, technologies) ==
    IF regions = <<>> THEN <<>>
    ELSE [j \in 1..Len(technologies) |-> <<regions[1], technologies[j]>>]
         \o Pairs(Tail(regions), technologies)

\* a for loop that an exception of its body ends
RECURSIVE ForEach(_, _, _, _)
ForEach(Body(_, _), st, items, i) ==
    IF i > Len(items) \/ st.err # NoError THEN st
    ELSE ForEach(Body, Body(st, items[i]), items, i + 1)

-----------------------------------------------------------------------------
(* create_buses                                                            *)

global_buses == <<"natural_gas", "coal", "uranium">>

\* GlobalSource with the price of the resource left out of the Flow
GlobalSourceUnpriced(st, bus, costs) ==
    IF ~InList(bus, global_buses) THEN st
    ELSE LET s1 == AddBus(st, "global", bus, Join2(bus, "bus")) IN
         IF bus \notin DOMAIN costs
         THEN Raise(s1, "KeyError")
         ELSE AddNode(s1, Source(Join2(bus, "source"),
                  s1.buses.map["global"][bus] :> PlainFlow))

\* GlobalSource with the labels made the other way round: 'bus_<fuel>' and
\* 'source_<fuel>'
GlobalSourceRenamed(st, bus, costs) ==
    IF ~InList(bus, global_buses) THEN st
    ELSE LET s1 == AddBus(st, "global", bus, Join2("bus", bus)) IN
         IF bus \notin DOMAIN costs
         THEN Raise(s1, "KeyError")
         ELSE AddNode(s1, Source(Join2("source", bus),
                  s1.buses.map["global"][bus] :>
                      Flow(None, Some(costs[bus]), None, FALSE, None)))

\* the first loop's body: the global bus of a fuel and its source
GlobalSource(st, bus, costs) ==
    IF ~InList(bus, global_buses) THEN st
    ELSE LET s1 == AddBus(st, "global", bus, Join2(bus, "bus")) IN
         IF bus \notin DOMAIN costs
         THEN Raise(s1, "KeyError")
         ELSE AddNode(s1, Source(Join2(bus, "source"),
                  s1.buses.map["global"][bus] :>
                      Flow(None, Some(costs[bus]), None, FALSE, None)))

\* ExcessEnabled with the policy ignored: excess for electricity only
ExcessEnabledElectricityOnly(excess, bus) == bus = "electricity"

\* excess.get(bus, None) is True
ExcessEnabled(excess, bus) == bus \in DOMAIN excess /\ excess[bus] = TRUE

\* the excess sink of one regional bus
ExcessSink(st, region, bus, excess) ==
    IF ExcessEnabled(excess, bus)
    THEN AddNode(st, Sink(Join3("excess", bus, region),
                          st.buses.map[region][bus] :> PlainFlow))
    ELSE st

\* the transformer that connects the global bus of a fuel to the regional one
GlobalLink(st, region, bus) ==
    IF ~InList(bus, global_buses) THEN st
    ELSE IF ~HasBus(st, "global", bus) THEN Raise(st, "KeyError")
    ELSE AddNode(st, LinearTransformer(
             Join3(bus, "global", region),
             st.buses.map["global"][bus] :> PlainFlow,
             st.buses.map[region][bus] :> PlainFlow,
             st.buses.map[region][bus] :> RatInt(1)))

\* the body of the inner loop: one bus of one region
RegionBus(st, region, bus, excess) ==
    GlobalLink(
        ExcessSink(AddBus(st, region, bus, Join2(bus, region)), region, bus, excess),
        region, bus)

\* the body of the outer loop: buses[region] = {} and the region's buses
Region(st, region, labels, excess) ==
    ForEach(LAMBDA s, bus : RegionBus(s, region, bus, excess),
            [st EXCEPT !.buses = SetRegion(@, region)], labels, 1)

\* create_buses(labels, regions, costs, excess) called with the entities e
\* already in the EnergySystem; the registry is new
create_buses(e, labels, regions, costs, excess) ==
    ForEach(LAMBDA s, region : Region(s, region, labels, excess),
            ForEach(LAMBDA s, bus : GlobalSource(s, bus, costs),
                    BuildState(e, SetRegion(NoRegistry, "global")), labels, 1),
            regions, 1)

\* excess={'electricity': True}: the dict the def statement of create_buses
\* evaluates once, the same object for every call that omits excess
DefaultExcess == "electricity" :> TRUE

\* ArgumentsAfter with line 59 written as excess.setdefault(bus, None) is True
ArgumentsAfterSetdefault(labels, regions, costs, excess) ==
    [labels |-> labels, regions |-> regions, costs |-> costs,
     excess |-> IF regions = <<>> THEN excess
                ELSE [c \in DOMAIN excess \cup {labels[i] : i \in DOMAIN labels} |->
                         IF c \in DOMAIN excess THEN excess[c] ELSE None]]

\* the argument objects after a call of create_buses: the function iterates
\* labels and regions, indexes costs and reads excess with excess.get, and
\* assigns to none of them
ArgumentsAfter(labels, regions, costs, excess) ==
    [labels |-> labels, regions |-> regions, costs |-> costs, excess |-> excess]

-----------------------------------------------------------------------------
(* epc and the tables of the scenario                                      *)

\* epc(capex, wacc, lifetime) for a rational capex, a rational wacc > -1 and
\* an integer lifetime.  series: the arguments are pandas Series (the call of
\* get_cost_data), whose division by zero gives nan or an infinity; Python
\* numbers raise ZeroDivisionError instead.
epc(capex, wacc, lifetime, series) ==
    LET growth == RatPow(NumAdd(RatInt(1), wacc), lifetime)
        numerator == NumMul(capex, NumMul(wacc, growth))
        denominator == NumSub(growth, RatInt(1))
    IN  IF denominator.n = 0 /\ ~series
        THEN [raised |-> "ZeroDivisionError", value |-> None]
        ELSE [raised |-> NoError, value |-> Some(NumDiv(numerator, denominator))]

\* costs['epc'] = epc(costs['capex'], costs['wacc'], costs['lifetime'])
get_cost_data(raw) ==
    [t \in DOMAIN raw |->
        [opex_var |-> raw[t].opex_var, opex_fix |-> raw[t].opex_fix,
         capex |-> raw[t].capex, wacc |-> raw[t].wacc, lifetime |-> raw[t].lifetime,
         epc |-> epc(raw[t].capex, raw[t].wacc, raw[t].lifetime, TRUE).value[1]]]

\* get_transmission_capacities that takes losses per km instead of per 100 km
get_transmission_capacities_per_km(rows, losses) ==
    [i \in DOMAIN rows |->
        [name |-> rows[i].name, from_region |-> rows[i].from_region,
         to_region |-> rows[i].to_region, length |-> rows[i].length,
         losses |-> NumMul(rows[i].length, losses)]]

\* trm_data['losses'] = trm_data['length'] * losses / 100
get_transmission_capacities(rows, losses) ==
    [i \in DOMAIN rows |->
        [name |-> rows[i].name, from_region |-> rows[i].from_region,
         to_region |-> rows[i].to_region, length |-> rows[i].length,
         losses |-> NumDiv(NumMul(rows[i].length, losses), RatInt(100))]]

\* list(data.index.get_level_values('region').unique())
DataRegions(data) == data.regions

\* data.loc[region][column] can be read
HasSeries(data, region, column) ==
    /\ region \in DOMAIN data.series
    /\ column \in DOMAIN data.series[region]

-----------------------------------------------------------------------------
(* The technology attachers                                                *)

\* [x for x in list(buses.keys()) if x is not 'global']
RegionsOrDefault(reg, regions) ==
    IF regions = None
    THEN SelectSeq(reg.keys, LAMBDA x : x # "global")
    ELSE regions[1]

\* TechInvestment without the fixed operation and maintenance costs
TechInvestmentEpcOnly(costs, tech) == Investment(costs[tech].epc)

\* Investment(ep_costs=costs.loc[tech, 'epc'] + costs.loc[tech, 'opex_fix'])
TechInvestment(costs, tech) ==
    Investment(NumAdd(costs[tech].epc, costs[tech].opex_fix))

\* ResFeeder that looks the region up with buses.setdefault(region, {})
ResFeederRegistering(st, region, tech, costs, data) ==
    IF region \notin DOMAIN st.buses.map
    THEN Raise([st EXCEPT !.buses = SetRegion(@, region)], "KeyError")
    ELSE IF ~HasBus(st, region, "electricity") THEN Raise(st, "KeyError")
    ELSE IF ~HasSeries(data, region, tech) THEN Raise(st, "KeyError")
    ELSE IF tech \notin DOMAIN costs THEN Raise(st, "KeyError")
    ELSE AddNode(st, Source(Join2(tech, region),
             st.buses.map[region]["electricity"] :>
                 Flow(Some(data.series[region][tech]),
                      Some(costs[tech].opex_var), None, TRUE,
                      Some(TechInvestment(costs, tech)))))

\* one Source of create_res_feeders
ResFeeder(st, region, tech, costs, data) ==
    IF ~HasBus(st, region, "electricity") THEN Raise(st, "KeyError")
    ELSE IF ~HasSeries(data, region, tech) THEN Raise(st, "KeyError")
    ELSE IF tech \notin DOMAIN costs THEN Raise(st, "KeyError")
    ELSE AddNode(st, Source(Join2(tech, region),
             st.buses.map[region]["electricity"] :>
                 Flow(Some(data.series[region][tech]),
                      Some(costs[tech].opex_var), None, TRUE,
                      Some(TechInvestment(costs, tech)))))

create_res_feeders(st, costs, data, technologies, regions) ==
    ForEach(LAMBDA s, p : ResFeeder(s, p[1], p[2], costs, data), st,
            Pairs(RegionsOrDefault(st.buses, regions), technologies), 1)

\* PowerPlant that names the plant by a running number instead of its region
PowerPlantNumbered(st, region, plant, costs, efficiencies) ==
    LET tech == plant[1]
        fuel == plant[2]
    IN  IF ~HasBus(st, region, fuel) THEN Raise(st, "KeyError")
        ELSE IF ~HasBus(st, region, "electricity") THEN Raise(st, "KeyError")
        ELSE IF tech \notin DOMAIN costs THEN Raise(st, "KeyError")
        ELSE IF tech \notin DOMAIN efficiencies THEN Raise(st, "KeyError")
        ELSE AddNode(st, LinearTransformer(
                 Join3(tech, "pp", ToString(Len(st.es) + 1)),
                 st.buses.map[region][fuel] :> PlainFlow,
                 st.buses.map[region]["electricity"] :>
                     Flow(None, Some(costs[tech].opex_var), None, FALSE,
                          Some(TechInvestment(costs, tech))),
                 st.buses.map[region]["electricity"] :>
                     efficiencies[tech].conversion_factor))

\* one LinearTransformer of create_transformers; plant = <<tech, fuel>>
PowerPlant(st, region, plant, costs, efficiencies) ==
    LET tech == plant[1]
        fuel == plant[2]
    IN  IF ~HasBus(st, region, fuel) THEN Raise(st, "KeyError")
        ELSE IF ~HasBus(st, region, "electricity") THEN Raise(st, "KeyError")
        ELSE IF tech \notin DOMAIN costs THEN Raise(st, "KeyError")
        ELSE IF tech \notin DOMAIN efficiencies THEN Raise(st, "KeyError")
        ELSE AddNode(st, LinearTransformer(
                 Join3(tech, "pp", region),
                 st.buses.map[region][fuel] :> PlainFlow,
                 st.buses.map[region]["electricity"] :>
                     Flow(None, Some(costs[tech].opex_var), None, FALSE,
                          Some(TechInvestment(costs, tech))),
                 st.buses.map[region]["electricity"] :>
                     efficiencies[tech].conversion_factor))

create_transformers(st, costs, efficiencies, technologies, regions) ==
    ForEach(LAMBDA s, p : PowerPlant(s, p[1], p[2], costs, efficiencies), st,
            Pairs(RegionsOrDefault(st.buses, regions), technologies), 1)

\* Demand with the nominal value of the Flow left out
DemandWithoutNominalValue(st, region, data) ==
    IF ~HasBus(st, region, "electricity") THEN Raise(st, "KeyError")
    ELSE IF ~HasSeries(data, region, "demand") THEN Raise(st, "KeyError")
    ELSE AddNode(st, Sink(Join2("demand", region),
             st.buses.map[region]["electricity"] :>
                 Flow(Some(data.series[region]["demand"]), None, None, TRUE, None)))

\* one Sink of create_demands
Demand(st, region, data) ==
    IF ~HasBus(st, region, "electricity") THEN Raise(st, "KeyError")
    ELSE IF ~HasSeries(data, region, "demand") THEN Raise(st, "KeyError")
    ELSE AddNode(st, Sink(Join2("demand", region),
             st.buses.map[region]["electricity"] :>
                 Flow(Some(data.series[region]["demand"]), None,
                      Some(RatInt(1)), TRUE, None)))

create_demands(st, data, regions) ==
    ForEach(LAMBDA s, r : Demand(s, r, data), st,
            IF regions = None THEN DataRegions(data) ELSE regions[1], 1)

\* one LinearTransformer of create_transmission
TransmissionLine(st, row, costs) ==
    IF ~HasBus(st, row.from_region, "electricity") THEN Raise(st, "KeyError")
    ELSE IF ~HasBus(st, row.to_region, "electricity") THEN Raise(st, "KeyError")
    ELSE IF "trm" \notin DOMAIN costs THEN Raise(st, "KeyError")
    ELSE AddNode(st, LinearTransformer(
             row.name,
             st.buses.map[row.from_region]["electricity"] :> PlainFlow,
             st.buses.map[row.to_region]["electricity"] :>
                 Flow(None, Some(costs["trm"].opex_var), None, FALSE,
                      Some(TechInvestment(costs, "trm"))),
             st.buses.map[row.to_region]["electricity"] :>
                 NumSub(RatInt(1), row.losses)))

create_transmission(st, trm_data, costs) ==
    ForEach(LAMBDA s, row : TransmissionLine(s, row, costs), st, trm_data, 1)

\* StorageParameters with the energy-to-power ratios passed on as they are
StorageParametersNotInverted(parameter, tech, costs) ==
    [capacity_loss |-> parameter[tech].capacity_loss,
     initial_capacity |-> RatInt(0),
     nominal_input_capacity_ratio |-> parameter[tech].energy_power_ratio_in,
     nominal_output_capacity_ratio |-> parameter[tech].energy_power_ratio_out,
     inflow_conversion_factor |-> parameter[tech].efficiency_in,
     outflow_conversion_factor |-> parameter[tech].efficiency_out,
     investment |-> TechInvestment(costs, tech)]

\* the keyword arguments of a Storage that come from its parameter row
StorageParameters(parameter, tech, costs) ==
    [capacity_loss |-> parameter[tech].capacity_loss,
     initial_capacity |-> RatInt(0),
     nominal_input_capacity_ratio |->
         NumDiv(RatInt(1), parameter[tech].energy_power_ratio_in),
     nominal_output_capacity_ratio |->
         NumDiv(RatInt(1), parameter[tech].energy_power_ratio_out),
     inflow_conversion_factor |-> parameter[tech].efficiency_in,
     outflow_conversion_factor |-> parameter[tech].efficiency_out,
     investment |-> TechInvestment(costs, tech)]

\* Storage(label=label, ...) of technology tech on the bus of carrier
StorageOn(st, region, carrier, label, tech, parameter, costs) ==
    IF ~HasBus(st, region, carrier) THEN Raise(st, "KeyError")
    ELSE IF tech \notin DOMAIN costs THEN Raise(st, "KeyError")
    ELSE IF tech \notin DOMAIN parameter THEN Raise(st, "KeyError")
    ELSE AddNode(st, Storage(label,
             st.buses.map[region][carrier] :>
                 Flow(None, Some(costs[tech].opex_var), None, FALSE, None),
             st.buses.map[region][carrier] :>
                 Flow(None, Some(costs[tech].opex_var), None, FALSE, None),
             StorageParameters(parameter, tech, costs)))

create_storages(st, parameter, technologies, costs, regions) ==
    ForEach(LAMBDA s, p : StorageOn(s, p[1], "electricity", Join2(p[2], p[1]),
                                    p[2], parameter, costs),
            st, Pairs(RegionsOrDefault(st.buses, regions), technologies), 1)

\* SngBus that replaces the region's entry: buses[region] = {'sng': Bus(..)}
SngBusAlone(st, region) ==
    IF region \notin DOMAIN st.buses.map
    THEN Raise(AddNode(st, Bus(Join2("sng", region))), "KeyError")
    ELSE AddBus([st EXCEPT !.buses = SetRegion(@, region)],
                region, "sng", Join2("sng", region))

\* buses[region]['sng'] = Bus(label='sng_<region>'): the Bus is constructed
\* before the registry entry of the region is looked up
SngBus(st, region) ==
    IF region \notin DOMAIN st.buses.map
    THEN Raise(AddNode(st, Bus(Join2("sng", region))), "KeyError")
    ELSE AddBus(st, region, "sng", Join2("sng", region))

\* the transformer from electricity to sng
PtgUnit(st, region, efficiencies, costs) ==
    IF st.err # NoError THEN st
    ELSE IF ~HasBus(st, region, "electricity") THEN Raise(st, "KeyError")
    ELSE IF "ptg" \notin DOMAIN costs THEN Raise(st, "KeyError")
    ELSE IF "ptg" \notin DOMAIN efficiencies THEN Raise(st, "KeyError")
    ELSE AddNode(st, LinearTransformer(
             Join2("ptg", region),
             st.buses.map[region]["electricity"] :> PlainFlow,
             st.buses.map[region]["sng"] :>
                 Flow(None, Some(costs["ptg"].opex_var), None, FALSE,
                      Some(TechInvestment(costs, "ptg"))),
             st.buses.map[region]["sng"] :> efficiencies["ptg"].conversion_factor))

\* the ideal transformer from sng to natural_gas
SngToNaturalGas(st, region) ==
    IF st.err # NoError THEN st
    ELSE IF ~HasBus(st, region, "natural_gas") THEN Raise(st, "KeyError")
    ELSE AddNode(st, LinearTransformer(
             Join2("sng2natural_gas", region),
             st.buses.map[region]["sng"] :> PlainFlow,
             st.buses.map[region]["natural_gas"] :>
                 Flow(None, None, None, FALSE, Some(Investment(RatInt(0)))),
             st.buses.map[region]["natural_gas"] :> RatInt(1)))

\* the gas storage at the sng bus
GasStorage(st, region, storage_parameter, costs) ==
    IF st.err # NoError THEN st
    ELSE StorageOn(st, region, "sng", Join2("gas", region), "gas",
                   storage_parameter, costs)

\* the loop body of create_ptg_objects
PtgRegion(st, region, efficiencies, storage_parameter, costs) ==
    GasStorage(
        SngToNaturalGas(PtgUnit(SngBus(st, region), region, efficiencies, costs),
                        region),
        region, storage_parameter, costs)

create_ptg_objects(st, efficiencies, storage_parameter, costs, regions) ==
    ForEach(LAMBDA s, r : PtgRegion(s, r, efficiencies, storage_parameter, costs),
            st, RegionsOrDefault(st.buses, regions), 1)

-----------------------------------------------------------------------------
(* OperationalModel(es) and emission_cap                                   *)

\* the edges of the graph: (node, bus) for an output, (bus, node) for an input
Edges(e) ==
    {p \in (DOMAIN e) \X (DOMAIN e) : p[2] \in DOMAIN e[p[1]].outputs}
    \cup
    {p \in (DOMAIN e) \X (DOMAIN e) : p[1] \in DOMAIN e[p[2]].inputs}

\* OperationalModel(es): one flow variable per edge and time step
OperationalModel(e, periods) ==
    [flow |-> {<<x[1], x[2], t>> : x \in Edges(e), t \in 0..(periods - 1)},
     co2_cap |-> None, written |-> FALSE, solved |-> FALSE]

\* es._groups: label -> node
InGroups(e, name) == \E i \in DOMAIN e : e[i].label = name
Group(e, name) == CHOOSE i \in DOMAIN e : e[i].label = name

\* co2_eq with the two factors exchanged
co2_eq_exchanged == << <<"coal", Rat(204, 1000)>>, <<"natural_gas", Rat(361, 1000)>> >>

\* co2_eq = {'coal': 0.361, 'natural_gas': 0.204}, in the dict's order
co2_eq == << <<"coal", Rat(361, 1000)>>, <<"natural_gas", Rat(204, 1000)>> >>

\* for tech in list(co2_eq.keys()) for t in range(0, periods)
RECURSIVE Range(_, _)
Range(lo, hi) == IF lo >= hi THEN <<>> ELSE <<lo>> \o Range(lo + 1, hi)

EmissionIndex(periods) == Pairs(co2_eq, Range(0, periods))

\* the key of om.flow._data a term of the sum reads
EmissionKey(e, tech, t) ==
    <<Group(e, Join2(tech, "source")), Group(e, Join2(tech, "bus")), t>>

\* the lookups of one term succeed
EmissionTermOk(m, e, tech, t) ==
    /\ InGroups(e, Join2(tech, "source"))
    /\ InGroups(e, Join2(tech, "bus"))
    /\ EmissionKey(e, tech, t) \in m.flow

\* the terms of the sum: flow variable and coefficient
EmissionTerms(e, periods) ==
    LET idx == EmissionIndex(periods)
    IN  [j \in 1..Len(idx) |->
            [var |-> EmissionKey(e, idx[j][1][1], idx[j][2]), coef |-> idx[j][1][2]]]

\* emission_cap that leaves out the terms whose lookups fail
emission_cap_skipping(m, e, periods, cap) ==
    LET idx == SelectSeq(EmissionIndex(periods),
                         LAMBDA x : EmissionTermOk(m, e, x[1][1], x[2]))
    IN  [err |-> NoError,
         om |-> [m EXCEPT !.co2_cap =
                    Some([terms |-> [j \in 1..Len(idx) |->
                                        [var |-> EmissionKey(e, idx[j][1][1], idx[j][2]),
                                         coef |-> idx[j][1][2]]],
                          cap |-> cap])]]

\* emission_cap that attaches the constraint term by term: when a lookup
\* fails the terms before it are already on the model
emission_cap_partial(m, e, periods, cap) ==
    LET idx == EmissionIndex(periods)
        bad == {j \in 1..Len(idx) : ~EmissionTermOk(m, e, idx[j][1][1], idx[j][2])}
        n == IF bad = {} THEN Len(idx)
             ELSE (CHOOSE j \in bad : \A k \in bad : j <= k) - 1
    IN  [err |-> IF bad = {} THEN NoError ELSE "KeyError",
         om |-> [m EXCEPT !.co2_cap =
                    Some([terms |-> [j \in 1..n |->
                                        [var |-> EmissionKey(e, idx[j][1][1], idx[j][2]),
                                         coef |-> idx[j][1][2]]],
                          cap |-> cap])]]

\* emission_cap(om, groups, periods, cap) for periods >= 1, with groups the
\* groups of the entities e: the model it returns, or the exception
emission_cap(m, e, periods, cap) ==
    LET idx == EmissionIndex(periods)
    IN  IF \E j \in 1..Len(idx) : ~EmissionTermOk(m, e, idx[j][1][1], idx[j][2])
        THEN [err |-> "KeyError", om |-> m]
        ELSE [err |-> NoError,
              om |-> [m EXCEPT !.co2_cap =
                         Some([terms |-> EmissionTerms(e, periods), cap |-> cap])]]

-----------------------------------------------------------------------------
(* Inputs                                                                  *)

CarrierNames == <<"electricity", "natural_gas", "coal", "uranium", "heat">>
RegionNames == {"a", "b", "global"}

RECURSIVE Pick(_, _, _)
Pick(s, I, i) ==
    IF i > Len(s) THEN <<>>
    ELSE (IF i \in I THEN <<s[i]>> ELSE <<>>) \o Pick(s, I, i + 1)

\* lists of carriers without repetition
LabelLists ==
    {Pick(CarrierNames, I, 1) :
        I \in {J \in SUBSET (1..Len(CarrierNames)) : Cardinality(J) <= MaxLabels}}

\* lists of regions without repetition, in every order
RegionLists ==
    {s \in UNION {[1..n -> RegionNames] : n \in 0..MaxRegions} :
        \A i, j \in DOMAIN s : i # j => s[i] # s[j]}

\* resource_costs of run_3regions_example
resource_costs ==
    ("natural_gas" :> Rat(282, 10000)) @@ ("coal" :> Rat(88, 10000))
        @@ ("uranium" :> Rat(78, 10000))

ResourceCostDicts ==
    {resource_costs, [c \in {"natural_gas", "uranium"} |-> resource_costs[c]]}

ExcessPolicies ==
    {DefaultExcess, EmptyDict, ("electricity" :> FALSE) @@ ("coal" :> TRUE)}

res_technologies == <<"wind", "solar", "hydro">>
conv_technologies ==
    << <<"ccgt", "natural_gas">>, <<"ocgt", "natural_gas">>,
       <<"coal", "coal">>, <<"nuclear", "uranium">> >>
storage_technologies == <<"battery", "phs">>

TechNames ==
    <<"wind", "solar", "hydro", "ccgt", "ocgt", "coal", "nuclear",
      "battery", "phs", "ptg", "gas", "trm">>
TechIndex(t) == CHOOSE i \in DOMAIN TechNames : TechNames[i] = t
TechSet == {TechNames[i] : i \in DOMAIN TechNames}

\* the rows of cost_parameters.csv, without the technologies in missing
RawCosts(missing, wacc) ==
    [t \in TechSet \ missing |->
        [opex_var |-> RatInt(TechIndex(t)), opex_fix |-> RatInt(2 * TechIndex(t)),
         capex |-> RatInt(100 * TechIndex(t)), wacc |-> Rat(wacc, 100),
         lifetime |-> 1 + (TechIndex(t) % 3)]]

\* the rows of efficiency_parameters.csv
Efficiencies(missing) ==
    [t \in TechSet \ missing |-> [conversion_factor |-> Rat(30 + TechIndex(t), 100)]]

\* the rows of storage_parameter.csv
StorageParameter(missing) ==
    [t \in {"battery", "phs", "gas"} \ missing |->
        [capacity_loss |-> Rat(1, 100), efficiency_in |-> Rat(9, 10),
         efficiency_out |-> Rat(8, 10),
         energy_power_ratio_in |-> RatInt(TechIndex(t) - 4),
         energy_power_ratio_out |-> RatInt(TechIndex(t) - 6)]]

\* the time series of the regions: each column has len values
Timeseries(regions, len) ==
    [regions |-> regions,
     series |-> [r \in {regions[i] : i \in DOMAIN regions} |->
                   [c \in {"wind", "solar", "hydro", "demand"} |->
                       [t \in 1..len |-> RatInt(t)]]]]

\* the rows of 3regions_transmission_capacities.csv; the name of a row is
\* free text
TransmissionTables ==
    {<<>>,
     <<[name |-> "a_b", from_region |-> "a", to_region |-> "b", length |-> RatInt(100)]>>,
     <<[name |-> "demand_a", from_region |-> "a", to_region |-> "b", length |-> RatInt(100)]>>,
     <<[name |-> "a_b", from_region |-> "a", to_region |-> "b", length |-> RatInt(100)],
       [name |-> "b_a", from_region |-> "b", to_region |-> "a", length |-> RatInt(250)]>>}

\* losses = 0.016 of run_3regions_example
losses == Rat(16, 1000)

\* one defect of the tables at a time
Defects == {"none", "costs_ccgt", "costs_gas", "efficiencies_ptg", "storage_gas", "series_long"}

Scenario(regions, defect, trm, periods) ==
    [periods |-> periods,
     costs |-> get_cost_data(RawCosts(
         IF defect = "costs_ccgt" THEN {"ccgt"}
         ELSE IF defect = "costs_gas" THEN {"gas"} ELSE {}, 5)),
     efficiencies |-> Efficiencies(IF defect = "efficiencies_ptg" THEN {"ptg"} ELSE {}),
     storage_parameter |-> StorageParameter(IF defect = "storage_gas" THEN {"gas"} ELSE {}),
     data |-> Timeseries(regions, IF defect = "series_long" THEN periods + 1 ELSE periods),
     trm_data |-> get_transmission_capacities(trm, losses)]

Scenarios ==
    {Scenario(r, d, t, p) :
        r \in RegionLists \ {<<>>}, d \in Defects, t \in TransmissionTables,
        p \in 1..MaxPeriods}

-----------------------------------------------------------------------------
(* State and actions                                                       *)

Call(fn, args, err, result) == [fn |-> fn, args |-> args, err |-> err, result |-> result]

Start(position, scenario) ==
    /\ defaults = [excess |-> DefaultExcess]
    /\ tables = scenario
    /\ buses = NoRegistry
    /\ es = <<>>
    /\ om = None
    /\ call = Call("none", EmptyDict, NoError, None)
    /\ calls = <<>>
    /\ pc = position

\* a builder has run and left the state st: its nodes are in the EnergySystem,
\* the registry it worked on is the caller's
Built(fn, args, st) ==
    /\ es' = st.es
    /\ buses' = st.buses
    /\ call' = Call(fn, args, st.err, None)
    /\ calls' = Append(calls, fn)

\* create_buses returns the registry, or raises and returns nothing
BuiltBuses(args, st) ==
    /\ es' = st.es
    /\ buses' = IF st.err = NoError THEN st.buses ELSE buses
    /\ call' = Call("create_buses", args, st.err, None)
    /\ calls' = Append(calls, "create_buses")

(* A caller of the library: create_buses, then the other functions.        *)

CallCreateBuses ==
    /\ pc = "lib"
    /\ calls = <<>>
    /\ \E labels \in LabelLists, regions \in RegionLists,
          costs \in ResourceCostDicts, excess \in ExcessPolicies :
            BuiltBuses([labels |-> labels, regions |-> regions, costs |-> costs,
                        excess |-> excess],
                       create_buses(es, labels, regions, costs, excess))
    /\ UNCHANGED <<defaults, tables, om, pc>>

CallOperationalModel ==
    /\ pc = "lib"
    /\ calls # <<>>
    /\ Len(calls) < MaxCalls
    /\ om = None
    /\ om' = Some(OperationalModel(es, tables.periods))
    /\ call' = Call("OperationalModel", EmptyDict, NoError, None)
    /\ calls' = Append(calls, "OperationalModel")
    /\ UNCHANGED <<defaults, tables, buses, es, pc>>

\* the caps a library caller passes
Caps == {RatInt(12), RatInt(13)}

CallEmissionCap ==
    /\ pc = "lib"
    /\ Len(calls) < MaxCalls
    /\ om # None
    /\ om[1].co2_cap = None
    /\ \E periods \in 1..MaxPeriods, cap \in Caps :
        LET r == emission_cap(om[1], es, periods, cap) IN
            /\ om' = Some(r.om)
            /\ call' = Call("emission_cap", [periods |-> periods, cap |-> cap],
                            r.err, None)
    /\ calls' = Append(calls, "emission_cap")
    /\ UNCHANGED <<defaults, tables, buses, es, pc>>

Init == \E p \in 1..MaxPeriods : Start("lib", Scenario(<<"a", "b">>, "none", <<>>, p))

Next == CallCreateBuses \/ CallOperationalModel \/ CallEmissionCap

Spec == Init /\ [][Next]_vars

-----------------------------------------------------------------------------
(* run_3regions_example                                                    *)

\* RunOrder with the power-to-gas chain attached before the storages
RunOrderPtgFirst ==
    <<"create_buses", "create_res_feeders", "create_transformers",
      "create_demands", "create_ptg_objects", "create_storages",
      "create_transmission", "OperationalModel", "emission_cap",
      "write", "solve", "dump">>

\* RunOrder with the emission cap added after the solve
RunOrderCapAfterSolve ==
    <<"create_buses", "create_res_feeders", "create_transformers",
      "create_demands", "create_storages", "create_ptg_objects",
      "create_transmission", "OperationalModel",
      "write", "solve", "emission_cap", "dump">>

\* RunOrder with the solver model created before the grid is attached
RunOrderModelBeforeGrid ==
    <<"create_buses", "create_res_feeders", "create_transformers",
      "create_demands", "create_storages", "create_ptg_objects",
      "OperationalModel", "create_transmission", "emission_cap",
      "write", "solve", "dump">>

\* the calls of run_3regions_example after the tables are read, in order
RunOrder ==
    <<"create_buses", "create_res_feeders", "create_transformers",
      "create_demands", "create_storages", "create_ptg_objects",
      "create_transmission", "OperationalModel", "emission_cap",
      "write", "solve", "dump">>

\* where the assembler is after a call: an exception leaves the function
After(step) ==
    LET i == CHOOSE j \in DOMAIN RunOrder : RunOrder[j] = step
    IN  IF i = Len(RunOrder) THEN "done" ELSE RunOrder[i + 1]

\* Then with the exception swallowed: the assembler goes on to the next call
ThenContinuing(step, err) == After(step)

Then(step, err) == IF err = NoError THEN After(step) ELSE "failed"

\* RunLabels without the natural gas bus
RunLabelsNoGas == <<"electricity", "coal", "uranium">>

\* ['electricity'] + list(resource_costs.keys())
RunLabels == <<"electricity", "natural_gas", "coal", "uranium">>

\* co2_cap = 54797831000 of run_3regions_example, in thousands: the cap is
\* passed to the constraint as it is
co2_cap == RatInt(54797831)

Here == BuildState(es, buses)

RunCreateBuses ==
    /\ pc = "create_buses"
    /\ LET st == create_buses(es, RunLabels, DataRegions(tables.data),
                              resource_costs, DefaultExcess)
       IN  /\ BuiltBuses([labels |-> RunLabels, regions |-> DataRegions(tables.data),
                          costs |-> resource_costs, excess |-> DefaultExcess], st)
           /\ pc' = Then("create_buses", st.err)
    /\ UNCHANGED <<defaults, tables, om>>

RunCreateResFeeders ==
    /\ pc = "create_res_feeders"
    /\ LET st == create_res_feeders(Here, tables.costs, tables.data,
                                    res_technologies, None)
       IN  /\ Built("create_res_feeders",
                    [technologies |-> res_technologies, regions |-> None], st)
           /\ pc' = Then("create_res_feeders", st.err)
    /\ UNCHANGED <<defaults, tables, om>>

RunCreateTransformers ==
    /\ pc = "create_transformers"
    /\ LET st == create_transformers(Here, tables.costs, tables.efficiencies,
                                     conv_technologies, None)
       IN  /\ Built("create_transformers",
                    [technologies |-> conv_technologies, regions |-> None], st)
           /\ pc' = Then("create_transformers", st.err)
    /\ UNCHANGED <<defaults, tables, om>>

RunCreateDemands ==
    /\ pc = "create_demands"
    /\ LET st == create_demands(Here, tables.data, None)
       IN  /\ Built("create_demands", [regions |-> None], st)
           /\ pc' = Then("create_demands", st.err)
    /\ UNCHANGED <<defaults, tables, om>>

RunCreateStorages ==
    /\ pc = "create_storages"
    /\ LET st == create_storages(Here, tables.storage_parameter,
                                 storage_technologies, tables.costs, None)
       IN  /\ Built("create_storages",
                    [technologies |-> storage_technologies, regions |-> None], st)
           /\ pc' = Then("create_storages", st.err)
    /\ UNCHANGED <<defaults, tables, om>>

RunCreatePtgObjects ==
    /\ pc = "create_ptg_objects"
    /\ LET st == create_ptg_objects(Here, tables.efficiencies,
                                    tables.storage_parameter, tables.costs, None)
       IN  /\ Built("create_ptg_objects", [regions |-> None], st)
           /\ pc' = Then("create_ptg_objects", st.err)
    /\ UNCHANGED <<defaults, tables, om>>

RunCreateTransmission ==
    /\ pc = "create_transmission"
    /\ LET st == create_transmission(Here, tables.trm_data, tables.costs)
       IN  /\ Built("create_transmission", EmptyDict, st)
           /\ pc' = Then("create_transmission", st.err)
    /\ UNCHANGED <<defaults, tables, om>>

RunOperationalModel ==
    /\ pc = "OperationalModel"
    /\ om' = Some(OperationalModel(es, tables.periods))
    /\ call' = Call("OperationalModel", EmptyDict, NoError, None)
    /\ calls' = Append(calls, "OperationalModel")
    /\ pc' = After("OperationalModel")
    /\ UNCHANGED <<defaults, tables, buses, es>>

\* om = emission_cap(om, es._groups, periods, co2_cap); called before
\* OperationalModel(es) there is no om to pass
RunEmissionCap ==
    /\ pc = "emission_cap"
    /\ IF om = None
       THEN /\ call' = Call("emission_cap", EmptyDict, "NameError", None)
            /\ pc' = "failed"
            /\ om' = om
       ELSE LET r == emission_cap(om[1], es, tables.periods, co2_cap) IN
            /\ om' = Some(r.om)
            /\ call' = Call("emission_cap",
                            [periods |-> tables.periods, cap |-> co2_cap],
                            r.err, None)
            /\ pc' = Then("emission_cap", r.err)
    /\ calls' = Append(calls, "emission_cap")
    /\ UNCHANGED <<defaults, tables, buses, es>>

\* om.write(...), om.solve(...), pickle.dump(...): a call on the model, which
\* must exist
OnModel(step) ==
    /\ pc = step
    /\ IF om = None
       THEN /\ call' = Call(step, EmptyDict, "NameError", None)
            /\ pc' = "failed"
            /\ om' = om
       ELSE /\ call' = Call(step, EmptyDict, NoError, None)
            /\ pc' = After(step)
            /\ om' = Some([om[1] EXCEPT !.written = @ \/ step = "write",
                                        !.solved = @ \/ step = "solve"])
    /\ calls' = Append(calls, step)
    /\ UNCHANGED <<defaults, tables, buses, es>>

RunWrite == OnModel("write")
RunSolve == OnModel("solve")
RunDump == OnModel("dump")

InitRun == \E s \in Scenarios : Start(RunOrder[1], s)

NextRun ==
    \/ RunCreateBuses
    \/ RunCreateResFeeders
    \/ RunCreateTransformers
    \/ RunCreateDemands
    \/ RunCreateStorages
    \/ RunCreatePtgObjects
    \/ RunCreateTransmission
    \/ RunOperationalModel
    \/ RunEmissionCap
    \/ RunWrite
    \/ RunSolve
    \/ RunDump

SpecRun == InitRun /\ [][NextRun]_vars

-----------------------------------------------------------------------------
(* A caller of the attachers: create_buses, then one attacher on the       *)
(* registry create_buses returned, with the tables of the scenario.        *)

\* the labels the caller gives create_buses
AttachLabels == {RunLabels, <<"electricity">>}

\* the regions argument of an attacher: omitted, or a list
RegionArgs == {None, Some(<<"a">>), Some(<<"b", "a">>), Some(<<>>), Some(<<"c">>)}

\* the tables the caller holds: the time series cover <<a, b>> or <<a>> only
AttachScenarios ==
    {Scenario(r, d, t, p) :
        r \in {<<"a", "b">>, <<"a">>}, d \in Defects, t \in TransmissionTables,
        p \in 1..MaxPeriods}

AttachCreateBuses ==
    /\ pc = "attach"
    /\ calls = <<>>
    /\ \E labels \in AttachLabels, regions \in RegionLists :
            BuiltBuses([labels |-> labels, regions |-> regions,
                        costs |-> resource_costs, excess |-> DefaultExcess],
                       create_buses(es, labels, regions, resource_costs, DefaultExcess))
    /\ UNCHANGED <<defaults, tables, om, pc>>

\* the registry is there and no attacher has been called yet
AttachReady == pc = "attach" /\ Len(calls) = 1 /\ call.err = NoError

CallCreateResFeeders ==
    /\ AttachReady
    /\ \E regions \in RegionArgs :
            Built("create_res_feeders",
                  [technologies |-> res_technologies, regions |-> regions],
                  create_res_feeders(Here, tables.costs, tables.data,
                                     res_technologies, regions))
    /\ UNCHANGED <<defaults, tables, om, pc>>

CallCreateTransformers ==
    /\ AttachReady
    /\ \E regions \in RegionArgs :
            Built("create_transformers",
                  [technologies |-> conv_technologies, regions |-> regions],
                  create_transformers(Here, tables.costs, tables.efficiencies,
                                      conv_technologies, regions))
    /\ UNCHANGED <<defaults, tables, om, pc>>

CallCreateDemands ==
    /\ AttachReady
    /\ \E regions \in RegionArgs :
            Built("create_demands", [regions |-> regions],
                  create_demands(Here, tables.data, regions))
    /\ UNCHANGED <<defaults, tables, om, pc>>

CallCreateStorages ==
    /\ AttachReady
    /\ \E regions \in RegionArgs :
            Built("create_storages",
                  [technologies |-> storage_technologies, regions |-> regions],
                  create_storages(Here, tables.storage_parameter,
                                  storage_technologies, tables.costs, regions))
    /\ UNCHANGED <<defaults, tables, om, pc>>

CallCreatePtgObjects ==
    /\ AttachReady
    /\ \E regions \in RegionArgs :
            Built("create_ptg_objects", [regions |-> regions],
                  create_ptg_objects(Here, tables.efficiencies,
                                     tables.storage_parameter, tables.costs, regions))
    /\ UNCHANGED <<defaults, tables, om, pc>>

CallCreateTransmission ==
    /\ AttachReady
    /\ Built("create_transmission", EmptyDict,
             create_transmission(Here, tables.trm_data, tables.costs))
    /\ UNCHANGED <<defaults, tables, om, pc>>

InitAttach == \E s \in AttachScenarios : Start("attach", s)

NextAttach ==
    \/ AttachCreateBuses
    \/ CallCreateResFeeders
    \/ CallCreateTransformers
    \/ CallCreateDemands
    \/ CallCreateStorages
    \/ CallCreatePtgObjects
    \/ CallCreateTransmission

SpecAttach == InitAttach /\ [][NextAttach]_vars

-----------------------------------------------------------------------------
(* Calls of epc                                                            *)

MaxCapex == 3       \* largest capex of a call
MaxWacc == 3        \* largest wacc of a call, in tenths
MaxLifetime == 3    \* lifetimes run from -MaxLifetime to MaxLifetime

CallEpc ==
    /\ pc = "epc"
    /\ \E capex \in 0..MaxCapex, wacc \in 0..MaxWacc,
          lifetime \in (-MaxLifetime)..MaxLifetime, series \in BOOLEAN :
        LET r == epc(RatInt(capex), Rat(wacc, 10), lifetime, series) IN
            call' = Call("epc", [capex |-> RatInt(capex), wacc |-> Rat(wacc, 10),
                                 lifetime |-> lifetime, series |-> series],
                         r.raised, r.value)
    /\ UNCHANGED <<defaults, tables, buses, es, om, calls, pc>>

InitEpc == Start("epc", Scenario(<<"a">>, "none", <<>>, 1))

SpecEpc == InitEpc /\ [][CallEpc]_vars

-----------------------------------------------------------------------------
(* Properties                                                              *)

Elems(s) == {s[i] : i \in DOMAIN s}
Labelled(kind, label) == {i \in DOMAIN es : es[i].kind = kind /\ es[i].label = label}
Returned(fn) == call.fn = fn /\ call.err = NoError
Registered(r, c) == r \in DOMAIN buses.map /\ c \in DOMAIN buses.map[r]
GlobalFuels == {"natural_gas", "coal", "uranium"}
IsPrefix(s, t) == Len(s) <= Len(t) /\ \A i \in DOMAIN s : s[i] = t[i]
Position(s, x) == CHOOSE i \in DOMAIN s : s[i] = x

\* the lossless transformers from the global bus of c to the bus of c in r
GlobalLinksOf(c, r) ==
    {i \in DOMAIN es :
        /\ es[i].kind = "LinearTransformer"
        /\ DOMAIN es[i].inputs = Labelled("Bus", Join2(c, "bus"))
        /\ DOMAIN es[i].outputs = {buses.map[r][c]}
        /\ es[i].conversion_factors = (buses.map[r][c] :> RatInt(1))}

\* C1: when create_buses(labels, regions, costs) has returned, every region r
\* of regions and carrier c of labels has exactly one Bus, stored at
\* buses[r][c], and for a fuel c exactly one Transformer with conversion
\* factor 1 leads from the global bus of c to that Bus.
C1_OneBusOneGlobalLink ==
    Returned("create_buses") =>
        \A r \in Elems(call.args.regions), c \in Elems(call.args.labels) :
            /\ Registered(r, c)
            /\ Labelled("Bus", Join2(c, r)) = {buses.map[r][c]}
            /\ c \in GlobalFuels => Cardinality(GlobalLinksOf(c, r)) = 1

\* C2: when create_buses has returned, every fuel among the labels has exactly
\* one global Bus '<fuel>_bus' and exactly one Source '<fuel>_source', whose
\* only output is that Bus through a Flow with variable_costs = costs[fuel]
\* and neither a nominal value nor an investment; no other carrier has a
\* global bus or a source, and there is no other Source.
C2_GlobalBusAndSource ==
    Returned("create_buses") =>
        /\ \A c \in Elems(CarrierNames) :
            IF c \in GlobalFuels /\ c \in Elems(call.args.labels)
            THEN /\ Cardinality(Labelled("Bus", Join2(c, "bus"))) = 1
                 /\ Cardinality(Labelled("Source", Join2(c, "source"))) = 1
                 /\ \A i \in Labelled("Source", Join2(c, "source")),
                       b \in Labelled("Bus", Join2(c, "bus")) :
                        es[i].outputs =
                            (b :> [actual_value |-> None,
                                   variable_costs |-> Some(call.args.costs[c]),
                                   nominal_value |-> None, fixed |-> FALSE,
                                   investment |-> None])
            ELSE /\ Labelled("Bus", Join2(c, "bus")) = {}
                 /\ Labelled("Source", Join2(c, "source")) = {}
        /\ Cardinality({i \in DOMAIN es : es[i].kind = "Source"})
               = Cardinality(GlobalFuels \cap Elems(call.args.labels))

C2_Witness ==
    /\ Returned("create_buses")
    /\ {"coal", "natural_gas", "heat"} \subseteq Elems(call.args.labels)
    /\ Labelled("Source", "coal_source") # {}

\* the excess policy asks for an excess sink on the buses of carrier c
PolicyTrue(c) == c \in DOMAIN call.args.excess /\ call.args.excess[c] = TRUE

\* the sinks whose only input is bus b, through a Flow without any bound
ExcessSinksOn(b) ==
    {i \in DOMAIN es :
        /\ es[i].kind = "Sink"
        /\ DOMAIN es[i].inputs = {b}
        /\ es[i].inputs[b].nominal_value = None
        /\ es[i].inputs[b].investment = None
        /\ es[i].inputs[b].actual_value = None}

\* C3: when create_buses has returned, every bus (c, r) of a carrier c with
\* excess[c] == True has an excess Sink with an unconstrained input flow; with
\* the default policy that is every region's electricity bus.
C3_ExcessSinks ==
    Returned("create_buses") =>
        \A r \in Elems(call.args.regions), c \in Elems(call.args.labels) :
            PolicyTrue(c) =>
                /\ Registered(r, c)
                /\ ExcessSinksOn(buses.map[r][c]) # {}
                /\ \E i \in ExcessSinksOn(buses.map[r][c]) :
                       es[i].label = Join3("excess", c, r)

C3_Witness ==
    /\ Returned("create_buses")
    /\ call.args.excess = ("electricity" :> FALSE) @@ ("coal" :> TRUE)
    /\ call.args.labels = <<"electricity", "coal">>
    /\ call.args.regions = <<"a", "b">>
    /\ ExcessSinksOn(buses.map["b"]["coal"]) # {}

BuilderOrder ==
    <<"create_buses", "create_res_feeders", "create_transformers",
      "create_demands", "create_storages", "create_ptg_objects",
      "create_transmission">>

BuilderCalls == SelectSeq(calls, LAMBDA f : f \in Elems(BuilderOrder))

\* C4: the builder calls of run_3regions_example so far are a prefix of
\* create_buses, create_res_feeders, create_transformers, create_demands,
\* create_storages, create_ptg_objects, create_transmission (so none runs
\* twice), and an attacher runs only once create_buses has returned the
\* registry.
C4_FixedOrder ==
    /\ IsPrefix(BuilderCalls, BuilderOrder)
    /\ Len(BuilderCalls) >= 2 => buses # NoRegistry
    /\ (Len(BuilderCalls) = 1 /\ pc # "failed") => buses # NoRegistry

C4_Witness == pc = "done" /\ BuilderCalls = BuilderOrder

\* the buses a node's flows and conversion factors refer to
BusesOf(i) ==
    DOMAIN es[i].inputs \cup DOMAIN es[i].outputs \cup DOMAIN es[i].conversion_factors

\* C5: every node's flows are attached to Buses constructed before the node;
\* the global bus of a fuel precedes every region link of that fuel; and when
\* run_3regions_example is about to call create_transformers, create_storages,
\* create_ptg_objects or create_transmission, every region of the scenario has
\* its electricity bus and its fuel buses, natural_gas among them.
C5_BusesFirst ==
    /\ \A i \in DOMAIN es : \A b \in BusesOf(i) :
           b \in DOMAIN es /\ b < i /\ es[b].kind = "Bus"
    /\ \A i \in DOMAIN es : \A c \in GlobalFuels, r \in RegionNames :
           (es[i].kind = "LinearTransformer" /\ es[i].label = Join3(c, "global", r))
               => \E b \in Labelled("Bus", Join2(c, "bus")) : b < i
    /\ pc \in {"create_transformers", "create_storages", "create_ptg_objects",
               "create_transmission"} =>
           \A r \in Elems(tables.data.regions) :
               \A c \in {"electricity", "natural_gas", "coal", "uranium"} :
                   /\ Registered(r, c)
                   /\ buses.map[r][c] \in Labelled("Bus", Join2(c, r))

C5_Witness ==
    /\ pc = "OperationalModel"
    /\ Labelled("LinearTransformer", "a_b") # {}
    /\ Labelled("LinearTransformer", "sng2natural_gas_b") # {}
    /\ Labelled("LinearTransformer", "coal_global_a") # {}

\* C6: in run_3regions_example emission_cap is called only after all seven
\* builder calls have been made, the solve is called only after emission_cap,
\* and once the solve has been called the model holds the co2_cap constraint.
C6_CapBeforeSolve ==
    /\ InList("emission_cap", calls) =>
           \A f \in Elems(BuilderOrder) :
               InList(f, calls) /\ Position(calls, f) < Position(calls, "emission_cap")
    /\ InList("solve", calls) =>
           /\ InList("emission_cap", calls)
           /\ Position(calls, "emission_cap") < Position(calls, "solve")
           /\ om # None
           /\ om[1].co2_cap # None

C6_Witness == pc = "done" /\ om # None /\ om[1].solved /\ om[1].co2_cap # None

EmittingFuels == {"coal", "natural_gas"}
EmissionFactor(f) == IF f = "coal" THEN Rat(361, 1000) ELSE Rat(204, 1000)

\* the flow variable from the global Source of fuel f to its global Bus at t
SourceFlow(f, t) ==
    <<CHOOSE i \in DOMAIN es :
          i \in Labelled("Source", Join2(f, "source")),
      CHOOSE b \in DOMAIN es :
          b \in Labelled("Bus", Join2(f, "bus")),
      t>>

\* the flows of the example: coal [10, 20], natural_gas [5, 5], any other 1000
ExampleValue(var) ==
    IF var[3] \in 0..1 /\ var = SourceFlow("coal", var[3])
    THEN RatInt(<<10, 20>>[var[3] + 1])
    ELSE IF var[3] \in 0..1 /\ var = SourceFlow("natural_gas", var[3])
    THEN RatInt(5)
    ELSE RatInt(1000)

RECURSIVE ExampleLhs(_, _)
ExampleLhs(terms, j) ==
    IF j > Len(terms) THEN RatInt(0)
    ELSE NumAdd(NumMul(terms[j].coef, ExampleValue(terms[j].var)),
                ExampleLhs(terms, j + 1))

\* C7: when emission_cap(om, groups, periods, cap) has returned, the model
\* holds the constraint co2_cap whose bound is cap and whose left-hand side
\* has, for each of coal and natural_gas and each t in 0..periods-1, exactly
\* one term, the flow from the fuel's global Source to its global Bus at t with
\* coefficient 0.361 (coal) or 0.204 (natural_gas), and no other term; for 2
\* periods with coal flows [10, 20] and natural_gas flows [5, 5] it is 12.87.
C7_EmissionSum ==
    Returned("emission_cap") =>
        /\ om # None
        /\ om[1].co2_cap # None
        /\ LET con == om[1].co2_cap[1]
               periods == call.args.periods
           IN  /\ con.cap = call.args.cap
               /\ Len(con.terms) = 2 * periods
               /\ \A f \in EmittingFuels, t \in 0..(periods - 1) :
                      Cardinality({j \in DOMAIN con.terms :
                                      con.terms[j].var = SourceFlow(f, t)}) = 1
               /\ \A j \in DOMAIN con.terms :
                      \E f \in EmittingFuels, t \in 0..(periods - 1) :
                          /\ con.terms[j].var = SourceFlow(f, t)
                          /\ con.terms[j].coef = EmissionFactor(f)
                          /\ con.terms[j].var \in om[1].flow
               /\ periods = 2 => ExampleLhs(con.terms, 1) = Rat(1287, 100)

C7_Witness ==
    /\ Returned("emission_cap")
    /\ call.args.periods = 2
    /\ Labelled("Source", "uranium_source") # {}
    /\ Labelled("LinearTransformer", "coal_global_a") # {}
    /\ Len(om[1].co2_cap[1].terms) = 4

EmissionNames == {"coal_source", "coal_bus", "natural_gas_source", "natural_gas_bus"}

\* a name emission_cap looks up is the label of no node
NameMissing == \E n \in EmissionNames : \A i \in DOMAIN es : es[i].label # n

\* C8: when emission_cap is called on groups that lack one of coal_source,
\* coal_bus, natural_gas_source, natural_gas_bus, it raises a KeyError (a
\* LookupError) and leaves the model without a co2_cap constraint.
C8_MissingNameRaises ==
    (call.fn = "emission_cap" /\ NameMissing) =>
        /\ call.err = "KeyError"
        /\ om # None
        /\ om[1].co2_cap = None

C8_Witness ==
    /\ call.fn = "emission_cap"
    /\ call.err = "KeyError"
    /\ Labelled("Source", "coal_source") = {}
    /\ Labelled("Source", "natural_gas_source") # {}
    /\ Labelled("Bus", "natural_gas_bus") # {}

\* C9: epc(capex, 0, lifetime) with lifetime > 0 returns capex / lifetime.
C9_StraightLine ==
    (call.fn = "epc" /\ call.args.wacc = RatInt(0) /\ call.args.lifetime > 0) =>
        /\ call.err = NoError
        /\ call.result = Some(NumDiv(call.args.capex, RatInt(call.args.lifetime)))

\* C10: epc(capex, wacc, lifetime) with lifetime <= 0 raises a
\* ConfigurationError and returns no value.
C10_LifetimeRejected ==
    (call.fn = "epc" /\ call.args.lifetime <= 0) =>
        /\ call.err = "ConfigurationError"
        /\ call.result = None

\* the attachers that take an optional regions argument
RegionalAttachers ==
    {"create_res_feeders", "create_transformers", "create_demands",
     "create_storages", "create_ptg_objects"}

\* the buses a node is attached to
BusesOfNode(node) == DOMAIN node.inputs \cup DOMAIN node.outputs

\* the registry keys on whose buses the nodes after the first n of e are attached
OperatedRegions(e, n, reg) ==
    {k \in DOMAIN reg.map :
        \E i \in (n + 1)..Len(e) : \E c \in DOMAIN reg.map[k] :
            reg.map[k][c] \in BusesOfNode(e[i])}

\* C11: a call of create_res_feeders, create_transformers, create_demands,
\* create_storages or create_ptg_objects with regions omitted that returns has
\* attached nodes to the buses of every registry key other than 'global' and
\* of no other key.
C11_DefaultRegions ==
    [][(/\ call'.fn \in RegionalAttachers
        /\ calls' # calls
        /\ call'.args.regions = None
        /\ call'.err = NoError)
       => OperatedRegions(es', Len(es), buses') = DOMAIN buses.map \ {"global"}]_vars

\* the Investments of a node: those of its flows and that of a Storage
InvestmentsOf(node) ==
    {node.inputs[b].investment[1] :
        b \in {x \in DOMAIN node.inputs : node.inputs[x].investment # None}}
    \cup {node.outputs[b].investment[1] :
        b \in {x \in DOMAIN node.outputs : node.outputs[x].investment # None}}
    \cup (IF node.storage = None THEN {} ELSE {node.storage[1].investment})

\* the technologies of the cost table a node belongs to, by its label:
\* '<tech>_<region>', '<tech>_pp_<region>', or the name of a transmission row
TechsOf(node) ==
    {t \in DOMAIN tables.costs :
        \/ \E r \in DOMAIN buses.map :
               node.label \in {Join2(t, r), Join3(t, "pp", r)}
        \/ t = "trm" /\ \E j \in DOMAIN tables.trm_data :
               tables.trm_data[j].name = node.label}

\* epc(tech) + opex_fix(tech) of the cost table
EpCosts(t) == NumAdd(tables.costs[t].epc, tables.costs[t].opex_fix)

IsSngLink(node) ==
    \E r \in DOMAIN buses.map : node.label = Join2("sng2natural_gas", r)

\* C12 as stated: every Investment of every node has ep_costs = epc(tech) +
\* opex_fix(tech) of the cost-table row of the node's technology.
C12_EveryInvestment ==
    \A i \in DOMAIN es : \A inv \in InvestmentsOf(es[i]) :
        \E t \in TechsOf(es[i]) : inv.ep_costs = EpCosts(t)

\* C12: every Investment of every node other than the sng2natural_gas
\* transformers has ep_costs = epc(tech) + opex_fix(tech) of the cost-table
\* row of the node's technology; the Investment of a sng2natural_gas
\* transformer has ep_costs = 0.
C12_InvestmentCosts ==
    \A i \in DOMAIN es : \A inv \in InvestmentsOf(es[i]) :
        IF IsSngLink(es[i])
        THEN inv.ep_costs = RatInt(0)
        ELSE \E t \in TechsOf(es[i]) : inv.ep_costs = EpCosts(t)

\* a finished build with the Investments of a feeder, a power plant, a
\* storage, the power-to-gas chain and a transmission line
C12_Witness ==
    /\ pc = "done"
    /\ \A l \in {"wind_a", "ccgt_pp_a", "battery_a", "ptg_a", "gas_a",
                 "sng2natural_gas_a", "a_b"} :
           \E i \in DOMAIN es : es[i].label = l /\ InvestmentsOf(es[i]) # {}

\* the regions the last call of an attacher iterates when regions is given,
\* or the registry keys other than 'global' when it is omitted
IteratedRegions ==
    IF call.args.regions = None
    THEN Elems(buses.keys) \ {"global"}
    ELSE Elems(call.args.regions[1])

\* the (region, technology) pairs of the last call whose feed-in time series
\* is not as long as the EnergySystem's time index
MismatchedSeries ==
    {p \in IteratedRegions \X Elems(call.args.technologies) :
        /\ HasSeries(tables.data, p[1], p[2])
        /\ Len(tables.data.series[p[1]][p[2]]) # tables.periods}

\* C13: when create_res_feeders meets a (region, technology) whose feed-in
\* time series has a length other than the number of periods of the
\* EnergySystem, the call fails and no Source of that pair exists.
C13_SeriesLength ==
    call.fn = "create_res_feeders" =>
        \A p \in MismatchedSeries :
            /\ call.err # NoError
            /\ Labelled("Source", Join2(p[2], p[1])) = {}

\* the regions the last call of create_demands is for
DemandRegions ==
    IF call.args.regions = None
    THEN Elems(DataRegions(tables.data))
    ELSE Elems(call.args.regions[1])

\* the Sinks with a fixed input: the demands (an excess Sink has a plain Flow)
DemandSinks ==
    {i \in DOMAIN es :
        /\ es[i].kind = "Sink"
        /\ \E b \in DOMAIN es[i].inputs : es[i].inputs[b].fixed}

\* the quantity a fixed Flow demands in each period: nominal_value * actual_value
Demanded(flow) ==
    [t \in DOMAIN flow.actual_value[1] |->
        NumMul(flow.nominal_value[1], flow.actual_value[1][t])]

\* C14: when create_demands has returned, each region it was called for has
\* exactly one demand Sink, 'demand_<region>', whose only input is the
\* region's electricity bus through a fixed Flow with the region's demand
\* column as actual_value and nominal_value = 1, so that the quantity
\* demanded in each period is the value of the table; there is no other
\* demand Sink.
C14_DemandSinks ==
    Returned("create_demands") =>
        /\ \A i \in DemandSinks : \E r \in DemandRegions : es[i].label = Join2("demand", r)
        /\ \A r \in DemandRegions :
            /\ Cardinality({i \in DemandSinks : es[i].label = Join2("demand", r)}) = 1
            /\ \A i \in DemandSinks : es[i].label = Join2("demand", r) =>
                /\ DOMAIN es[i].inputs = {buses.map[r]["electricity"]}
                /\ es[buses.map[r]["electricity"]].kind = "Bus"
                /\ LET flow == es[i].inputs[buses.map[r]["electricity"]] IN
                    /\ flow.fixed
                    /\ flow.actual_value = Some(tables.data.series[r]["demand"])
                    /\ flow.nominal_value = Some(RatInt(1))
                    /\ Demanded(flow) = tables.data.series[r]["demand"]

\* create_demands has returned from two regions with a demand of two periods
C14_Witness ==
    /\ Returned("create_demands")
    /\ DemandRegions = {"a", "b"}
    /\ tables.periods = 2
    /\ Cardinality(DemandSinks) = 2

\* the electricity bus of a region
ElectricityBus(r) == buses.map[r]["electricity"]

\* the transformers that lead from one electricity bus to another
TransmissionLines ==
    {i \in DOMAIN es :
        /\ es[i].kind = "LinearTransformer"
        /\ \E r1, r2 \in {r \in DOMAIN buses.map : Registered(r, "electricity")} :
            /\ DOMAIN es[i].inputs = {ElectricityBus(r1)}
            /\ DOMAIN es[i].outputs = {ElectricityBus(r2)}}

\* length * loss rate per 100 km / 100 of a row
RowLosses(row) == NumDiv(NumMul(row.length, losses), RatInt(100))

\* C15: when create_transmission has returned, each row of the transmission
\* table has exactly one Transformer, named as the row, whose only input is
\* the electricity bus of from_region and whose only output is the
\* electricity bus of to_region, with the conversion factor
\* 1 - length * losses / 100 on the output; there are as many transmission
\* transformers as rows, so a reverse link exists only for a row of its own.
C15_TransmissionLinks ==
    Returned("create_transmission") =>
        /\ Cardinality(TransmissionLines) = Len(tables.trm_data)
        /\ \A j \in DOMAIN tables.trm_data :
            LET row == tables.trm_data[j]
                lines == {i \in TransmissionLines : es[i].label = row.name}
            IN  /\ Cardinality(lines) = 1
                /\ \A i \in lines :
                    /\ DOMAIN es[i].inputs = {ElectricityBus(row.from_region)}
                    /\ DOMAIN es[i].outputs = {ElectricityBus(row.to_region)}
                    /\ es[i].conversion_factors =
                           (ElectricityBus(row.to_region) :>
                               NumSub(RatInt(1), RowLosses(row)))
        /\ \A i \in TransmissionLines : \E j \in DOMAIN tables.trm_data :
            /\ DOMAIN es[i].inputs = {ElectricityBus(tables.trm_data[j].from_region)}
            /\ DOMAIN es[i].outputs = {ElectricityBus(tables.trm_data[j].to_region)}

\* create_transmission has returned from a table with the single row a -> b of
\* 100 km: one transformer with conversion factor 0.984 and none from b to a
C15_Witness ==
    /\ Returned("create_transmission")
    /\ Len(tables.trm_data) = 1
    /\ \E i \in TransmissionLines :
        /\ es[i].label = "a_b"
        /\ es[i].conversion_factors = (ElectricityBus("b") :> Rat(984, 1000))
    /\ ~\E i \in TransmissionLines : DOMAIN es[i].inputs = {ElectricityBus("b")}

Storages == {i \in DOMAIN es : es[i].kind = "Storage"}

\* the rows of the storage-parameter table a Storage belongs to, by its label
StorageRowsOf(node) ==
    {t \in DOMAIN tables.storage_parameter :
        \E r \in DOMAIN buses.map : node.label = Join2(t, r)}

\* C16: every Storage belongs to one row of the storage-parameter table, and
\* its nominal_input_capacity_ratio times the row's energy_power_ratio_in is
\* 1, its nominal_output_capacity_ratio times energy_power_ratio_out is 1
\* (a ratio of 4 gives 0.25), and its initial_capacity is 0.
C16_StorageRatios ==
    \A i \in Storages :
        /\ Cardinality(StorageRowsOf(es[i])) = 1
        /\ \A t \in StorageRowsOf(es[i]) :
            LET row == tables.storage_parameter[t]
                sto == es[i].storage[1]
            IN  /\ NumMul(sto.nominal_input_capacity_ratio,
                          row.energy_power_ratio_in) = RatInt(1)
                /\ NumMul(sto.nominal_output_capacity_ratio,
                          row.energy_power_ratio_out) = RatInt(1)
                /\ (row.energy_power_ratio_in = RatInt(4) =>
                       sto.nominal_input_capacity_ratio = Rat(25, 100))
                /\ sto.initial_capacity = RatInt(0)

\* create_storages has made the battery of region a, whose row has
\* energy_power_ratio_in = 4, and create_ptg_objects the gas storage
C16_Witness ==
    /\ InList("create_ptg_objects", calls)
    /\ call.err = NoError
    /\ tables.storage_parameter["battery"].energy_power_ratio_in = RatInt(4)
    /\ \E i \in Storages :
        /\ es[i].label = "battery_a"
        /\ es[i].storage[1].nominal_input_capacity_ratio = Rat(1, 4)
    /\ \E i \in Storages : es[i].label = "gas_a"

\* the regions a call of create_ptg_objects with the arguments args on the
\* registry reg iterates
PtgRegions(args, reg) ==
    IF args.regions = None
    THEN Elems(reg.keys) \ {"global"}
    ELSE Elems(args.regions[1])

\* C17: a call of create_ptg_objects leaves the keys of the registry and
\* every bus stored in it as they were and adds no carrier other than sng;
\* the entry of a region it is not applied to is unchanged; and when it has
\* returned, every region r it was applied to whose entry had no sng bus has
\* a Bus 'sng_<r>' constructed by the call at buses[r]['sng'], the carrier
\* set of r being one larger than before.
C17_SngBusAdded ==
    [][(call'.fn = "create_ptg_objects" /\ calls' # calls) =>
        /\ buses'.keys = buses.keys
        /\ DOMAIN buses'.map = DOMAIN buses.map
        /\ \A k \in DOMAIN buses.map :
            /\ \A c \in DOMAIN buses.map[k] :
                /\ c \in DOMAIN buses'.map[k]
                /\ buses'.map[k][c] = buses.map[k][c]
            /\ DOMAIN buses'.map[k] \ DOMAIN buses.map[k] \subseteq {"sng"}
            /\ k \notin PtgRegions(call'.args, buses) => buses'.map[k] = buses.map[k]
        /\ call'.err = NoError =>
            \A r \in PtgRegions(call'.args, buses) \cap DOMAIN buses.map :
                "sng" \notin DOMAIN buses.map[r] =>
                    /\ "sng" \in DOMAIN buses'.map[r]
                    /\ buses'.map[r]["sng"] > Len(es)
                    /\ es'[buses'.map[r]["sng"]] = Bus(Join2("sng", r))
                    /\ Cardinality(DOMAIN buses'.map[r]) =
                           Cardinality(DOMAIN buses.map[r]) + 1]_vars

\* create_ptg_objects has returned from the regions a and b, which had four
\* carriers each
C17_Witness ==
    /\ Returned("create_ptg_objects")
    /\ \A r \in {"a", "b"} :
        /\ Registered(r, "sng")
        /\ Cardinality(DOMAIN buses.map[r]) = 5
    /\ ~Registered("global", "sng")

\* the technologies of a call of create_transformers without a row in the
\* cost table
MissingTechs(args) ==
    {args.technologies[j][1] : j \in DOMAIN args.technologies} \ DOMAIN tables.costs

\* C18: a call of create_transformers with a technology that has no row in
\* the cost table raises, leaves the bus registry as it was, and leaves no
\* node '<tech>_pp_<region>' of that technology in the EnergySystem.
C18_MissingTechnology ==
    [][(/\ call'.fn = "create_transformers"
        /\ calls' # calls
        /\ MissingTechs(call'.args) # {})
       => /\ call'.err # NoError
          /\ buses' = buses
          /\ \A t \in MissingTechs(call'.args) : \A i \in DOMAIN es' :
                ~\E r \in DOMAIN buses.map \cup {"c"} :
                    es'[i].label = Join3(t, "pp", r)]_vars

\* what run_3regions_example does with the model after the builders
SolverCalls == {"OperationalModel", "emission_cap", "write", "solve", "dump"}

\* C19: in run_3regions_example no call follows a call that raised (no retry,
\* no continuation), and when a builder raises the assembler ends with that
\* exception: no optimisation model exists and none of OperationalModel,
\* emission_cap, write, solve has been or will be executed on the partly
\* built EnergySystem.
C19_ErrorsPropagate ==
    [][/\ call.err = NoError
       /\ (call'.fn \in Elems(BuilderOrder) /\ call'.err # NoError) =>
            /\ pc' = "failed"
            /\ om' = None
            /\ \A f \in SolverCalls : ~InList(f, calls')
            /\ calls'[Len(calls')] = call'.fn
            /\ \A i, j \in DOMAIN calls' : i # j => calls'[i] # calls'[j]]_vars

\* create_transformers has raised after create_res_feeders had attached its
\* sources: the run is over, with a partly built EnergySystem and no model
C19_Witness ==
    /\ pc = "failed"
    /\ call.fn = "create_transformers"
    /\ call.err = "KeyError"
    /\ \E i \in DOMAIN es : es[i].label = "wind_a"
    /\ om = None

-----------------------------------------------------------------------------
(* Repeated builds.  resource_costs, conv_technologies and the registry    *)
(* are dicts: the order in which their keys are iterated is the            *)
(* interpreter's, and may differ from one run of the program to the next.  *)

\* the orders in which the keys of a dict are iterated from one run to the
\* next: those in which the iteration starts at any of the keys and goes
\* round them, forwards or backwards
Orders(s) ==
    {[i \in 1..Len(s) |-> s[((i + k - 2) % Len(s)) + 1]] : k \in 1..Len(s)}
        \cup {[i \in 1..Len(s) |-> s[((k - i + Len(s)) % Len(s)) + 1]] : k \in 1..Len(s)}

\* the builder calls of run_3regions_example on the tables s, from a new
\* EnergySystem: fuels is the order of resource_costs.keys(), plants that of
\* conv_technologies.items(), keys that of buses.keys()
BuildOnce(s, fuels, plants, keys) ==
    CHOOSE built \in
        {IF s6.err # NoError THEN s6
         ELSE create_transmission(s6, s.trm_data, s.costs) :
         s6 \in
        {IF s5.err # NoError THEN s5
         ELSE create_ptg_objects(s5, s.efficiencies, s.storage_parameter, s.costs, None) :
         s5 \in
        {IF s4.err # NoError THEN s4
         ELSE create_storages(s4, s.storage_parameter, storage_technologies, s.costs, None) :
         s4 \in
        {IF s3.err # NoError THEN s3 ELSE create_demands(s3, s.data, None) :
         s3 \in
        {IF s2.err # NoError THEN s2
         ELSE create_transformers(s2, s.costs, s.efficiencies, plants, None) :
         s2 \in
        {IF s1.err # NoError THEN s1
         ELSE create_res_feeders([s1 EXCEPT !.buses.keys = keys],
                                 s.costs, s.data, res_technologies, None) :
         s1 \in
        {create_buses(<<>>, <<"electricity">> \o fuels, DataRegions(s.data),
                      resource_costs, DefaultExcess)}}}}}}} : TRUE

\* list(buses.keys()) of the registry create_buses returns for the regions,
\* in the order of insertion
RegistryKeys(regions) ==
    create_buses(<<>>, <<"electricity">>, regions, resource_costs, DefaultExcess).buses.keys

\* what two graphs are compared by: the number of nodes, the number of edges
\* and the set of labels
Summary(e) ==
    [nodes |-> Len(e), edges |-> Cardinality(Edges(e)),
     labels |-> {e[i].label : i \in DOMAIN e}]

\* the tables of a program that is run twice
BuildScenarios ==
    {Scenario(r, d, t, MaxPeriods) :
        r \in RegionLists \ {<<>>}, d \in {"none"},
        t \in {t \in TransmissionTables : Len(t) # 1}}

\* one run of the builder calls of run_3regions_example, the program being
\* run twice: the first run meets the keys of each dict in the order they
\* were inserted, the second in any of Orders
RunBuild ==
    /\ pc = "build"
    /\ Len(calls) < 2
    /\ \E fuels \in IF calls = <<>> THEN {global_buses} ELSE Orders(global_buses),
          plants \in IF calls = <<>> THEN {conv_technologies}
                     ELSE Orders(conv_technologies),
          keys \in IF calls = <<>> THEN {RegistryKeys(DataRegions(tables.data))}
                   ELSE Orders(RegistryKeys(DataRegions(tables.data))) :
        \E st \in {BuildOnce(tables, fuels, plants, keys)} :
            /\ es' = st.es
            /\ buses' = st.buses
            /\ call' = Call("build", [fuels |-> fuels, plants |-> plants, keys |-> keys],
                            st.err, None)
    /\ calls' = Append(calls, "build")
    /\ UNCHANGED <<defaults, tables, om, pc>>

InitBuild == \E s \in BuildScenarios : Start("build", s)

SpecBuild == InitBuild /\ [][RunBuild]_vars

\* C20: the second of two runs of the builder calls on the same tables ends
\* as the first did, with the exception or without, and when both have built
\* their graph the two graphs have the same number of nodes, the same number
\* of edges and the same set of labels, whatever the orders in which the two
\* runs iterate the dicts.
C20_SameGraph ==
    [][(call.fn = "build" /\ call'.fn = "build") =>
        /\ call'.err = call.err
        /\ call.err = NoError => Summary(es') = Summary(es)]_vars

\* the program has been run twice, the second time meeting the fuels, the
\* plants and the registry keys in another order, and both graphs are built
C20_Witness ==
    /\ Len(calls) = 2
    /\ call.err = NoError
    /\ call.args.fuels # global_buses
    /\ call.args.plants # conv_technologies
    /\ call.args.keys # RegistryKeys(DataRegions(tables.data))
    /\ Len(es) > 20

-----------------------------------------------------------------------------
\* the seven builder calls of the assembler have all returned
BuildComplete ==
    /\ InList("create_transmission", calls)
    /\ ~(call.fn = "create_transmission" /\ call.err # NoError)

-----------------------------------------------------------------------------
\* C22: from OperationalModel(es) on, no step of the assembler changes the
\* entities of the EnergySystem (buses, nodes and their flows) or the bus
\* registry, and the emission_cap step changes nothing of the optimisation
\* model but its co2_cap constraint.
C22_FrozenAfterHandover ==
    [][om # None =>
        /\ es' = es
        /\ buses' = buses
        /\ call'.fn = "emission_cap" =>
              om' = Some([om[1] EXCEPT !.co2_cap = om'[1].co2_cap])]_vars

\* the run is over: the model was created from a graph with a transmission
\* line, capped and solved
C22_Witness ==
    /\ pc = "done"
    /\ om # None
    /\ om[1].co2_cap # None
    /\ \E i \in DOMAIN es : es[i].label = "a_b"

-----------------------------------------------------------------------------
\* the regions of a call of create_ptg_objects that ended in es2 without the
\* region's gas storage: the region the call failed for and those after it
UnfinishedPtgRegions(args, reg, es2) ==
    {r \in PtgRegions(args, reg) :
        ~\E i \in DOMAIN es2 :
            es2[i].kind = "Storage" /\ es2[i].label = Join2("gas", r)}

\* C23: when a call of create_ptg_objects raises, every region it did not
\* finish is left without any part of the chain: the registry has no sng
\* entry for the region, and the EnergySystem has neither the transformer
\* 'ptg_<region>' nor the transformer 'sng2natural_gas_<region>' (nor the
\* storage 'gas_<region>').
C23_NoPartialPtg ==
    [][(/\ call'.fn = "create_ptg_objects"
        /\ calls' # calls
        /\ call'.err # NoError)
       => \A r \in UnfinishedPtgRegions(call'.args, buses, es') :
            /\ ~(r \in DOMAIN buses'.map /\ "sng" \in DOMAIN buses'.map[r])
            /\ \A i \in DOMAIN es' :
                es'[i].label \notin {Join2("ptg", r), Join2("sng2natural_gas", r)}]_vars

-----------------------------------------------------------------------------
(* A caller that applies several attachers, in any order and possibly the  *)
(* same one again, to the registry create_buses returned.                  *)

MaxAttach == 2      \* attacher calls after create_buses

\* the regions argument of the attachers of this caller
SeqRegionArgs == {None, Some(<<"a">>)}

SeqScenarios ==
    {Scenario(<<"a", "b">>, d, t, 1) :
        d \in {"none", "costs_gas"}, t \in {t \in TransmissionTables : Len(t) = 2}}

SeqCreateBuses ==
    /\ pc = "seq"
    /\ calls = <<>>
    /\ \E labels \in AttachLabels, regions \in RegionLists :
            BuiltBuses([labels |-> labels, regions |-> regions,
                        costs |-> resource_costs, excess |-> DefaultExcess],
                       create_buses(es, labels, regions, resource_costs, DefaultExcess))
    /\ UNCHANGED <<defaults, tables, om, pc>>

\* the registry is there and the caller has attacher calls left
SeqReady == pc = "seq" /\ calls # <<>> /\ Len(calls) <= MaxAttach

SeqCreateResFeeders ==
    /\ SeqReady
    /\ \E regions \in SeqRegionArgs :
            Built("create_res_feeders",
                  [technologies |-> res_technologies, regions |-> regions],
                  create_res_feeders(Here, tables.costs, tables.data,
                                     res_technologies, regions))
    /\ UNCHANGED <<defaults, tables, om, pc>>

SeqCreateTransformers ==
    /\ SeqReady
    /\ \E regions \in SeqRegionArgs :
            Built("create_transformers",
                  [technologies |-> conv_technologies, regions |-> regions],
                  create_transformers(Here, tables.costs, tables.efficiencies,
                                      conv_technologies, regions))
    /\ UNCHANGED <<defaults, tables, om, pc>>

SeqCreateDemands ==
    /\ SeqReady
    /\ \E regions \in SeqRegionArgs :
            Built("create_demands", [regions |-> regions],
                  create_demands(Here, tables.data, regions))
    /\ UNCHANGED <<defaults, tables, om, pc>>

SeqCreateStorages ==
    /\ SeqReady
    /\ \E regions \in SeqRegionArgs :
            Built("create_storages",
                  [technologies |-> storage_technologies, regions |-> regions],
                  create_storages(Here, tables.storage_parameter,
                                  storage_technologies, tables.costs, regions))
    /\ UNCHANGED <<defaults, tables, om, pc>>

SeqCreatePtgObjects ==
    /\ SeqReady
    /\ \E regions \in SeqRegionArgs :
            Built("create_ptg_objects", [regions |-> regions],
                  create_ptg_objects(Here, tables.efficiencies,
                                     tables.storage_parameter, tables.costs, regions))
    /\ UNCHANGED <<defaults, tables, om, pc>>

SeqCreateTransmission ==
    /\ SeqReady
    /\ Built("create_transmission", EmptyDict,
             create_transmission(Here, tables.trm_data, tables.costs))
    /\ UNCHANGED <<defaults, tables, om, pc>>

InitSeq == \E s \in SeqScenarios : Start("seq", s)

NextSeq ==
    \/ SeqCreateBuses
    \/ SeqCreateResFeeders
    \/ SeqCreateTransformers
    \/ SeqCreateDemands
    \/ SeqCreateStorages
    \/ SeqCreatePtgObjects
    \/ SeqCreateTransmission

SpecSeq == InitSeq /\ [][NextSeq]_vars

\* the buses the registry holds
RegistryBuses ==
    UNION {{buses.map[r][c] : c \in DOMAIN buses.map[r]} : r \in DOMAIN buses.map}

\* C24: after create_buses and any attacher calls on its registry, every bus
\* that a flow of a node is attached to is a bus the registry holds at one of
\* its (region, carrier) keys.
C24_AttachedToRegistry ==
    calls # <<>> =>
        \A i \in DOMAIN es : BusesOfNode(es[i]) \subseteq RegistryBuses

-----------------------------------------------------------------------------
\* C25: when create_buses(labels, regions, costs) has returned, the keys of
\* the registry are the regions and 'global', and the entry 'global' holds
\* the global bus '<fuel>_bus' of every fuel among the labels and nothing
\* else, also when one of the regions is named 'global'.
C25_GlobalEntry ==
    Returned("create_buses") =>
        /\ DOMAIN buses.map = Elems(call.args.regions) \cup {"global"}
        /\ DOMAIN buses.map["global"] = GlobalFuels \cap Elems(call.args.labels)
        /\ \A c \in DOMAIN buses.map["global"] :
            es[buses.map["global"][c]] = Bus(Join2(c, "bus"))

-----------------------------------------------------------------------------
\* the functions that write to the registry
RegistryWriters == {"create_buses", "create_ptg_objects"}

\* C26: a call that changes the bus registry is a call of create_buses or of
\* create_ptg_objects, and the latter adds nothing but sng entries to the
\* regions the registry has; create_res_feeders, create_transformers,
\* create_demands, create_storages and create_transmission leave the
\* registry as it was, whether they return or raise.
C26_RegistryWriters ==
    [][/\ buses' # buses => call'.fn \in RegistryWriters
       /\ (call'.fn = "create_ptg_objects" /\ calls' # calls) =>
            /\ buses'.keys = buses.keys
            /\ \A k \in DOMAIN buses.map :
                [c \in DOMAIN buses.map[k] |-> buses'.map[k][c]] = buses.map[k]]_vars

\* one of the five attachers has raised on a registry with the regions a
\* and b
C26_Witness ==
    /\ call.fn \in (RegionalAttachers \cup {"create_transmission"}) \ RegistryWriters
    /\ call.err # NoError
    /\ Registered("a", "electricity")
    /\ Registered("b", "electricity")

-----------------------------------------------------------------------------
(* A caller that builds the buses of several energy systems in one process, *)
(* with or without an excess policy of its own.                             *)

\* the labels of the caller: a fuel set, electricity alone, no electricity
DefaultLabels == AttachLabels \cup {<<"coal", "heat">>}

\* the excess argument: omitted, or a policy
ExcessArgs == {None} \cup {Some(e) : e \in ExcessPolicies}

\* create_buses on a new EnergySystem
DefaultCreateBuses ==
    /\ pc = "default"
    /\ Len(calls) < MaxCalls
    /\ \E labels \in DefaultLabels, regions \in RegionLists, arg \in ExcessArgs :
        LET excess == IF arg = None THEN defaults.excess ELSE arg[1]
            st == create_buses(<<>>, labels, regions, resource_costs, excess)
            after == ArgumentsAfter(labels, regions, resource_costs, excess)
        IN  /\ es' = st.es
            /\ buses' = st.buses
            /\ call' = Call("create_buses",
                            [labels |-> labels, regions |-> regions,
                             costs |-> resource_costs, excess |-> arg],
                            st.err, Some(after))
            /\ defaults' = IF arg = None THEN [excess |-> after.excess] ELSE defaults
    /\ calls' = Append(calls, "create_buses")
    /\ UNCHANGED <<tables, om, pc>>

InitDefault == Start("default", Scenario(<<"a">>, "none", <<>>, 1))

SpecDefault == InitDefault /\ [][DefaultCreateBuses]_vars

\* the sinks of the EnergySystem are the excess sinks of the electricity
\* buses of the regions
ExcessOnElectricityOnly ==
    /\ \A i \in DOMAIN es :
        es[i].kind = "Sink" =>
            \E r \in Elems(call.args.regions) :
                /\ es[i].label = Join3("excess", "electricity", r)
                /\ \A b \in DOMAIN es[i].inputs : es[b].label = Join2("electricity", r)
    /\ InList("electricity", call.args.labels) =>
        \A r \in Elems(call.args.regions) :
            Labelled("Sink", Join3("excess", "electricity", r)) # {}

\* C27: after any number of calls of create_buses the shared default of
\* excess is still {'electricity': True}; a call leaves labels, regions,
\* costs and excess as it was given them; and a call without an excess
\* policy attaches excess sinks to the electricity buses and to no other.
C27_DefaultUnchanged ==
    /\ defaults.excess = ("electricity" :> TRUE)
    /\ call.fn = "create_buses" =>
        /\ call.result[1].labels = call.args.labels
        /\ call.result[1].regions = call.args.regions
        /\ call.result[1].costs = call.args.costs
        /\ call.args.excess # None => call.result[1].excess = call.args.excess[1]
        /\ (call.args.excess = None /\ call.err = NoError) => ExcessOnElectricityOnly

\* the third call in a row without a policy, for coal and heat in two
\* regions, after which the energy system has no sink
C27_Witness ==
    /\ Len(calls) = 3
    /\ call.args.excess = None
    /\ call.args.labels = <<"coal", "heat">>
    /\ Len(call.args.regions) = 2
    /\ call.err = NoError
    /\ Len(es) > 4

-----------------------------------------------------------------------------
\* create_buses has returned a registry, and coal and natural_gas were among
\* its labels: each has its entry under 'global'
CoalAndGasAmongLabels ==
    /\ buses # NoRegistry
    /\ EmittingFuels \subseteq DOMAIN buses.map["global"]

\* C28: on a model of an EnergySystem built by a create_buses call that
\* returned, emission_cap(om, groups, periods, cap) returns if and only if
\* coal and natural_gas were both among the labels of create_buses and
\* periods is at most the horizon of the model; the names it looks up are
\* then the labels of the global Bus and Source of the two fuels.
C28_CapSucceedsIff ==
    [][(call'.fn = "emission_cap" /\ calls' # calls /\ buses # NoRegistry) =>
        /\ call'.err = NoError <=>
              (CoalAndGasAmongLabels /\ call'.args.periods <= tables.periods)
        /\ call'.err = NoError =>
              \A f \in EmittingFuels :
                /\ Cardinality(Labelled("Bus", Join2(f, "bus"))) = 1
                /\ Cardinality(Labelled("Source", Join2(f, "source"))) = 1
                /\ \A i \in Labelled("Source", Join2(f, "source")) :
                      DOMAIN es[i].outputs = Labelled("Bus", Join2(f, "bus"))]_vars

\* emission_cap has returned for the whole horizon of a model with the two
\* fuels and a third carrier
C28_Witness ==
    /\ Returned("emission_cap")
    /\ call.args.periods = tables.periods
    /\ tables.periods = MaxPeriods
    /\ CoalAndGasAmongLabels
    /\ om[1].co2_cap # None
    /\ Len(buses.keys) > 1

-----------------------------------------------------------------------------
\* C29: a call of emission_cap that raises leaves the optimisation model as
\* it was: it has no co2_cap constraint, neither the whole sum nor a part of
\* it, and its flow variables are those it had.
C29_FailedCapLeavesModel ==
    [][(call'.fn = "emission_cap" /\ calls' # calls /\ call'.err # NoError) =>
        /\ om' = om
        /\ om # None => om'[1].co2_cap = None]_vars

\* emission_cap has raised on a model with both fuels, for one time step more
\* than the horizon: the lookups of the first terms of the sum had succeeded
C29_Witness ==
    /\ call.fn = "emission_cap"
    /\ call.err = "KeyError"
    /\ CoalAndGasAmongLabels
    /\ call.args.periods = tables.periods + 1
    /\ om # None
    /\ om[1].co2_cap = None

-----------------------------------------------------------------------------
\* node i is the power plant of technology plant[1] in region r
IsPlant(i, plant, r) ==
    es[i].kind = "LinearTransformer" /\ es[i].label = Join3(plant[1], "pp", r)

\* bus b is fed by the global source of fuel f: a transformer with conversion
\* factor 1 leads to it from the bus '<f>_bus', the only output of the
\* Source '<f>_source'
FedFromGlobalSource(b, f) ==
    \E link, gb, src \in DOMAIN es :
        /\ es[link].kind = "LinearTransformer"
        /\ DOMAIN es[link].outputs = {b}
        /\ es[link].conversion_factors = (b :> RatInt(1))
        /\ DOMAIN es[link].inputs = {gb}
        /\ es[gb] = Bus(Join2(f, "bus"))
        /\ es[src].kind = "Source"
        /\ es[src].label = Join2(f, "source")
        /\ DOMAIN es[src].outputs = {gb}

\* C30: after create_buses and create_transformers, every power plant
\* '<tech>_pp_<region>' takes its fuel f from the bus '<f>_<region>' only,
\* which is fed from the global Source of f through the global bus and a
\* lossless link, and delivers to the electricity bus of the region only.
C30_FuelPath ==
    call.fn = "create_transformers" =>
        \A i \in DOMAIN es, j \in DOMAIN conv_technologies, r \in DOMAIN buses.map :
            IsPlant(i, conv_technologies[j], r) =>
                /\ \E rb, eb \in DOMAIN es :
                    /\ DOMAIN es[i].inputs = {rb}
                    /\ es[rb] = Bus(Join2(conv_technologies[j][2], r))
                    /\ FedFromGlobalSource(rb, conv_technologies[j][2])
                    /\ DOMAIN es[i].outputs = {eb}
                    /\ es[eb] = Bus(Join2("electricity", r))

====
